---- MODULE Spec2Model ----
(***************************************************************************)
(* The blog's data layer (apps/blog/models.py) and the account forms       *)
(* (apps/accounts/forms.py) as a state machine over the relational store.  *)
(* Tables are functions from primary keys to rows; a request that issues   *)
(* more than one query (a read that guards a later write) is a process     *)
(* with one step per query, so that two requests interleave exactly where  *)
(* two database round trips do.                                            *)
(***************************************************************************)
EXTENDS Integers, FiniteSets, Sequences, TLC

VARIABLES users, categories, posts, comments, ratings,
          nextId, now, pc, local, result

vars == <<users, categories, posts, comments, ratings,
          nextId, now, pc, local, result>>

-----------------------------------------------------------------------------
(* Bounds of the model                                                     *)

\* primary keys handed out per table (autoincrement, never reused)
MaxUsers == 3
MaxCategories == 3
MaxPosts == 3
MaxComments == 3
MaxRatings == 3
\* ticks of the clock behind auto_now_add
MaxTime == 1
\* largest disambiguating suffix the slug generator tries
MaxSuffix == 3

-----------------------------------------------------------------------------
(* Program constants                                                       *)

\* a null foreign key (null=True): no row has primary key 0
NULL == 0
\* Post.author: on_delete=SET_DEFAULT, default=1
DEFAULT_AUTHOR == 1

Procs == {"r1", "r2"}
Titles == {"Tech", "News"}
Addresses == {"1.2.3.4", "5.6.7.8"}
Emails == {"a@x.com", "b@x.com"}
Booleans == {TRUE, FALSE}
\* Post.STATUS_OPTIONS
STATUS_OPTIONS == {"published", "draft"}
\* Rating.value choices
VALUE_CHOICES == {1, -1}
\* a blank SlugField (blank=True)
BLANK == <<"", 0>>

Idle == [op |-> "none"]
NoResult == [op |-> "none", outcome |-> "none"]

-----------------------------------------------------------------------------
(* Rating: unique_together and the vote                                    *)

\* the rows of Rating with this (post, ip_address)
RatingsOf(post, ip) ==
    {r \in DOMAIN ratings : ratings[r].post = post /\ ratings[r].ip_address = ip}

\* mutant: the table has no unique_together
NoUniqueTogether(post, ip) ==
    FALSE

\* Rating.Meta.unique_together = ('post', 'ip_address'): the row is refused
UniqueTogetherViolated(post, ip) ==
    RatingsOf(post, ip) # {}

\* cast_vote, first query: is there a vote of this address on this post?
VoteCheck(p, post, ip, value, user) ==
    /\ pc[p] = "idle"
    /\ post \in DOMAIN posts
    /\ IF value \notin VALUE_CHOICES
       THEN /\ result' =
                    [op |-> "cast_vote", outcome |-> "ValidationError",
                     post |-> post, ip |-> ip]
            /\ UNCHANGED <<pc, local>>
       ELSE IF RatingsOf(post, ip) # {}
       THEN /\ result' =
                    [op |-> "cast_vote", outcome |-> "ConflictError",
                     post |-> post, ip |-> ip, by |-> "lookup"]
            /\ UNCHANGED <<pc, local>>
       ELSE /\ pc' = [pc EXCEPT ![p] = "vote_insert"]
            /\ local' = [local EXCEPT ![p] =
                    [op |-> "cast_vote", post |-> post, ip |-> ip,
                     value |-> value, user |-> user]]
            /\ UNCHANGED result
    /\ UNCHANGED <<users, categories, posts, comments, ratings, nextId, now>>

\* cast_vote, second query: INSERT INTO rating, decided by the constraints
VoteInsert(p) ==
    /\ pc[p] = "vote_insert"
    /\ LET v == local[p] IN
       IF v.post \notin DOMAIN posts \/ (v.user # NULL /\ v.user \notin DOMAIN users)
       THEN /\ result' =
                    [op |-> "cast_vote", outcome |-> "IntegrityError",
                     post |-> v.post, ip |-> v.ip]
            /\ UNCHANGED <<ratings, nextId>>
       ELSE IF UniqueTogetherViolated(v.post, v.ip)
       THEN /\ result' =
                    [op |-> "cast_vote", outcome |-> "ConflictError",
                     post |-> v.post, ip |-> v.ip, by |-> "constraint"]
            /\ UNCHANGED <<ratings, nextId>>
       ELSE /\ nextId.rating <= MaxRatings
            /\ ratings' = [r \in DOMAIN ratings \cup {nextId.rating} |->
                    IF r = nextId.rating
                    THEN [post |-> v.post, user |-> v.user, value |-> v.value,
                          time_create |-> now, ip_address |-> v.ip]
                    ELSE ratings[r]]
            /\ nextId' = [nextId EXCEPT !.rating = @ + 1]
            /\ result' =
                    [op |-> "cast_vote", outcome |-> "ok",
                     post |-> v.post, ip |-> v.ip]
    /\ pc' = [pc EXCEPT ![p] = "idle"]
    /\ local' = [local EXCEPT ![p] = Idle]
    /\ UNCHANGED <<users, categories, posts, comments, now>>

-----------------------------------------------------------------------------
(* Slug generator (apps.services.utils.unique_slugify)                     *)

\* the URL-safe token of a title
Slugify(title) ==
    CASE title = "Tech" -> "tech"
      [] title = "News" -> "news"
      [] OTHER -> ""

\* a row other than `id` of the table already carries slug s
SlugTaken(table, id, s) ==
    \E o \in DOMAIN table : o # id /\ table[o].slug = s

\* the slugs the generator returns for (instance id, title, present slug):
\* the present slug if it still belongs to the title, else the title's token,
\* and on a collision the token with the first free suffix ("tech-2");
\* none when every suffix it tries is taken
unique_slugify(table, id, title, slug) ==
    LET token == Slugify(title)
        base == IF slug # BLANK /\ slug[1] = token THEN slug ELSE <<token, 0>>
        free == {m \in 2..MaxSuffix : ~SlugTaken(table, id, <<token, m>>)}
    IN  IF ~SlugTaken(table, id, base)
        THEN {base}
        ELSE {<<token, n>> : n \in {m \in free : \A o \in free : m <= o}}

-----------------------------------------------------------------------------
(* Post                                                                    *)

\* a new, unsaved Post as the create view builds it (slug blank, pk unset)
NewPost(title, category, status, author, fixed) ==
    [id |-> NULL, title |-> title, slug |-> BLANK, category |-> category,
     status |-> status, create |-> NULL, author |-> author,
     updater |-> NULL, fixed |-> fixed]

\* a stored Post loaded and edited by the update view
EditedPost(id, title, status, updater, fixed) ==
    [id |-> id, title |-> title, slug |-> posts[id].slug,
     category |-> posts[id].category, status |-> status,
     create |-> posts[id].create, author |-> posts[id].author,
     updater |-> updater, fixed |-> fixed]

\* the row written for an instance
PostRow(inst, created) ==
    [title |-> inst.title, slug |-> inst.slug, category |-> inst.category,
     status |-> inst.status, create |-> created, author |-> inst.author,
     updater |-> inst.updater, fixed |-> inst.fixed]

\* the row's foreign keys point at stored rows
PostForeignKeysOK(inst) ==
    /\ inst.category \in DOMAIN categories
    /\ inst.author \in DOMAIN users
    /\ inst.updater = NULL \/ inst.updater \in DOMAIN users

\* Post.save, line 89: self.slug = unique_slugify(self, self.title, self.slug)
PostSaveSlug(p, inst) ==
    /\ pc[p] = "idle"
    /\ LET slugs == unique_slugify(posts, inst.id, inst.title, inst.slug) IN
       IF slugs = {}
       THEN /\ result' =
                    [op |-> "Post.save", outcome |-> "ValidationError",
                     id |-> inst.id]
            /\ UNCHANGED <<pc, local>>
       ELSE \E s \in slugs :
            /\ pc' = [pc EXCEPT ![p] = "post_write"]
            /\ local' = [local EXCEPT ![p] =
                    [op |-> "Post.save", inst |-> [inst EXCEPT !.slug = s]]]
            /\ UNCHANGED result
    /\ UNCHANGED <<users, categories, posts, comments, ratings, nextId, now>>

\* Post.save, line 90: super().save(): UPDATE the row of the instance's pk,
\* INSERT when the pk is unset or no row has it
PostSaveWrite(p) ==
    /\ pc[p] = "post_write"
    /\ LET inst == local[p].inst IN
       IF ~PostForeignKeysOK(inst)
       THEN /\ result' =
                    [op |-> "Post.save", outcome |-> "IntegrityError",
                     id |-> inst.id]
            /\ UNCHANGED <<posts, nextId>>
       ELSE IF inst.id = NULL
       THEN /\ nextId.post <= MaxPosts
            /\ posts' = [q \in DOMAIN posts \cup {nextId.post} |->
                    IF q = nextId.post THEN PostRow(inst, now) ELSE posts[q]]
            /\ nextId' = [nextId EXCEPT !.post = @ + 1]
            /\ result' =
                    [op |-> "Post.save", outcome |-> "ok", id |-> nextId.post]
       ELSE /\ posts' = [q \in DOMAIN posts \cup {inst.id} |->
                    IF q = inst.id THEN PostRow(inst, inst.create) ELSE posts[q]]
            /\ result' =
                    [op |-> "Post.save", outcome |-> "ok", id |-> inst.id]
            /\ UNCHANGED nextId
    /\ pc' = [pc EXCEPT ![p] = "idle"]
    /\ local' = [local EXCEPT ![p] = Idle]
    /\ UNCHANGED <<users, categories, comments, ratings, now>>

\* the clock behind auto_now_add advances
Tick ==
    /\ now < MaxTime
    /\ now' = now + 1
    /\ UNCHANGED <<users, categories, posts, comments, ratings, nextId, pc,
                   local, result>>

-----------------------------------------------------------------------------
(* PostManager and Post.Meta.ordering                                      *)

\* Post.Meta.ordering = ['-fixed', '-create'] as an ascending sort key
OrderingKey(row) ==
    <<IF row.fixed THEN 0 ELSE 1, 0 - row.create>>

\* ORDER BY places row a strictly before row b
SortsBefore(a, b) ==
    LET ka == OrderingKey(a)
        kb == OrderingKey(b)
    IN  ka[1] < kb[1] \/ (ka[1] = kb[1] /\ ka[2] < kb[2])

\* the orders in which ORDER BY may return the rows S of Post: rows with
\* equal keys come in any order
RECURSIVE Ordered(_)
Ordered(S) ==
    IF S = {} THEN {<<>>}
    ELSE UNION {{<<q>> \o rest : rest \in Ordered(S \ {q})} :
                q \in {m \in S : \A o \in S : ~SortsBefore(posts[o], posts[m])}}

\* mutant: the manager forgets the status filter
get_queryset_unfiltered ==
    Ordered(DOMAIN posts)

\* PostManager.get_queryset: the possible results of Post.custom.all()
get_queryset ==
    Ordered({q \in DOMAIN posts : posts[q].status = "published"})

-----------------------------------------------------------------------------
(* Post.get_sum_rating                                                     *)

\* self.ratings.all(): the Ratings of the post, newest first
RECURSIVE RelatedRatings(_)
RelatedRatings(S) ==
    IF S = {} THEN <<>>
    ELSE LET r == CHOOSE m \in S : \A o \in S :
                      ratings[o].time_create <= ratings[m].time_create
         IN  <<r>> \o RelatedRatings(S \ {r})

\* sum([...]) over a list of values
RECURSIVE Sum(_)
Sum(seq) ==
    IF seq = <<>> THEN 0 ELSE Head(seq) + Sum(Tail(seq))

\* mutant: the sum runs over Rating.objects.all()
get_sum_rating_all(post) ==
    LET rs == RelatedRatings(DOMAIN ratings)
    IN  Sum([i \in 1..Len(rs) |-> ratings[rs[i]].value])

\* Post.get_sum_rating
get_sum_rating(post) ==
    LET rs == RelatedRatings({r \in DOMAIN ratings : ratings[r].post = post})
    IN  Sum([i \in 1..Len(rs) |-> ratings[rs[i]].value])

-----------------------------------------------------------------------------
(* Deletion: the on_delete policies of the foreign keys                    *)

\* Category.parent, on_delete=CASCADE: S and every descendant of S
RECURSIVE CascadeCategories(_)
CascadeCategories(S) ==
    LET T == S \cup {c \in DOMAIN categories : categories[c].parent \in S}
    IN  IF T = S THEN S ELSE CascadeCategories(T)

\* Comment.parent, on_delete=CASCADE: S and every reply below S
RECURSIVE CascadeComments(_)
CascadeComments(S) ==
    LET T == S \cup {c \in DOMAIN comments : comments[c].parent \in S}
    IN  IF T = S THEN S ELSE CascadeComments(T)

\* mutant: Post.category cascades instead of protecting
ProtectedPostsNone(cats) ==
    {}

\* Post.category, on_delete=PROTECT: the Posts that block deleting cats
ProtectedPosts(cats) ==
    {q \in DOMAIN posts : posts[q].category \in cats}

\* Comment.post, on_delete=CASCADE: the Comments deleted with the post
PostComments(post) ==
    CascadeComments({c \in DOMAIN comments : comments[c].post = post})

\* Rating.post, on_delete=CASCADE: the Ratings deleted with the post
PostRatings(post) ==
    {r \in DOMAIN ratings : ratings[r].post = post}

\* a table without the rows gone
Without(table, gone) ==
    [k \in DOMAIN table \ gone |-> table[k]]

\* Post.delete()
DeletePost(p, post) ==
    /\ pc[p] = "idle"
    /\ post \in DOMAIN posts
    /\ posts' = Without(posts, {post})
    /\ comments' = Without(comments, PostComments(post))
    /\ ratings' = Without(ratings, PostRatings(post))
    /\ result' =
            [op |-> "Post.delete", outcome |-> "ok", id |-> post]
    /\ UNCHANGED <<users, categories, nextId, now, pc, local>>

\* Category.delete(): the subtree goes unless a Post is protected
DeleteCategory(p, cat) ==
    /\ pc[p] = "idle"
    /\ cat \in DOMAIN categories
    /\ LET cats == CascadeCategories({cat}) IN
       IF ProtectedPosts(cats) # {}
       THEN /\ result' =
                    [op |-> "Category.delete", outcome |-> "ProtectedError",
                     id |-> cat]
            /\ UNCHANGED <<categories, posts>>
       ELSE /\ categories' = Without(categories, cats)
            /\ UNCHANGED posts
            /\ result' =
                    [op |-> "Category.delete", outcome |-> "ok", id |-> cat]
    /\ UNCHANGED <<users, comments, ratings, nextId, now, pc, local>>

\* Comment.author and Rating.user, on_delete=CASCADE
UserComments(user) ==
    CascadeComments({c \in DOMAIN comments : comments[c].author = user})

UserRatings(user) ==
    {r \in DOMAIN ratings : ratings[r].user = user}

\* Post.author, on_delete=SET_DEFAULT (default=1), and Post.updater,
\* on_delete=SET_NULL: the field updates of deleting `user`
PostAfterUserDelete(row, user) ==
    [row EXCEPT !.author = IF @ = user THEN DEFAULT_AUTHOR ELSE @,
                !.updater = IF @ = user THEN NULL ELSE @]

\* User.delete(): field updates and cascades in one transaction; the
\* store's foreign key check on Post.author decides the commit
DeleteUser(p, user) ==
    /\ pc[p] = "idle"
    /\ user \in DOMAIN users
    /\ LET after == [q \in DOMAIN posts |-> PostAfterUserDelete(posts[q], user)]
           left == DOMAIN users \ {user}
       IN  IF \E q \in DOMAIN after : after[q].author \notin left
           THEN /\ result' =
                        [op |-> "User.delete", outcome |-> "IntegrityError",
                         id |-> user]
                /\ UNCHANGED <<users, posts, comments, ratings>>
           ELSE /\ users' = Without(users, {user})
                /\ posts' = after
                /\ comments' = Without(comments, UserComments(user))
                /\ ratings' = Without(ratings, UserRatings(user))
                /\ result' =
                        [op |-> "User.delete", outcome |-> "ok", id |-> user]
    /\ UNCHANGED <<categories, nextId, now, pc, local>>

-----------------------------------------------------------------------------
(* Category and Comment rows                                               *)

\* Category(title, slug, parent).save(): the row is stored as given; the
\* model has no save() of its own and the slug column no constraint
CreateCategory(p, title, slug, parent) ==
    /\ pc[p] = "idle"
    /\ IF parent # NULL /\ parent \notin DOMAIN categories
       THEN /\ result' =
                    [op |-> "Category.save", outcome |-> "IntegrityError",
                     id |-> NULL]
            /\ UNCHANGED <<categories, nextId>>
       ELSE /\ nextId.category <= MaxCategories
            /\ categories' = [c \in DOMAIN categories \cup {nextId.category} |->
                    IF c = nextId.category
                    THEN [title |-> title, slug |-> slug, parent |-> parent]
                    ELSE categories[c]]
            /\ nextId' = [nextId EXCEPT !.category = @ + 1]
            /\ result' =
                    [op |-> "Category.save", outcome |-> "ok",
                     id |-> nextId.category]
    /\ UNCHANGED <<users, posts, comments, ratings, now, pc, local>>

\* Comment(post, author, parent).save(): the three foreign keys are checked
\* each on its own; nothing relates parent.post to post
CreateComment(p, post, author, parent) ==
    /\ pc[p] = "idle"
    /\ IF \/ post \notin DOMAIN posts
          \/ author \notin DOMAIN users
          \/ (parent # NULL /\ parent \notin DOMAIN comments)
       THEN /\ result' =
                    [op |-> "Comment.save", outcome |-> "IntegrityError",
                     id |-> NULL]
            /\ UNCHANGED <<comments, nextId>>
       ELSE /\ nextId.comment <= MaxComments
            /\ comments' = [c \in DOMAIN comments \cup {nextId.comment} |->
                    IF c = nextId.comment
                    THEN [post |-> post, author |-> author, parent |-> parent]
                    ELSE comments[c]]
            /\ nextId' = [nextId EXCEPT !.comment = @ + 1]
            /\ result' =
                    [op |-> "Comment.save", outcome |-> "ok",
                     id |-> nextId.comment]
    /\ UNCHANGED <<users, categories, posts, ratings, now, pc, local>>

\* a stored Comment saved with another parent: the tree refuses a node
\* below itself, and nothing else
MoveComment(p, c, parent) ==
    /\ pc[p] = "idle"
    /\ c \in DOMAIN comments
    /\ parent = NULL \/ parent \in DOMAIN comments
    /\ IF parent \in CascadeComments({c})
       THEN /\ result' =
                    [op |-> "Comment.save", outcome |-> "InvalidMove", id |-> c]
            /\ UNCHANGED comments
       ELSE /\ comments' = [comments EXCEPT ![c].parent = parent]
            /\ result' =
                    [op |-> "Comment.save", outcome |-> "ok", id |-> c]
    /\ UNCHANGED <<users, categories, posts, ratings, nextId, now, pc, local>>

-----------------------------------------------------------------------------
(* Account forms                                                           *)

\* User.objects.filter(email=email).exists()
EmailExists(email) ==
    \E u \in DOMAIN users : users[u].email = email

\* User.objects.filter(email=email).exclude(pk=pk).exists()
EmailExistsExcluding(email, pk) ==
    \E u \in DOMAIN users : u # pk /\ users[u].email = email

\* UserRegisterForm.clean_email: raises when the email is in use
RegisterEmailRejected(email) ==
    email # "" /\ EmailExists(email)

\* UserUpdateForm.clean_email: raises when another user has the email
UpdateEmailRejected(email, pk) ==
    email # "" /\ EmailExistsExcluding(email, pk)

\* register, form.is_valid(): clean_email against the stored users
RegisterClean(p, email) ==
    /\ pc[p] = "idle"
    /\ IF RegisterEmailRejected(email)
       THEN /\ result' =
                    [op |-> "register", outcome |-> "ValidationError",
                     email |-> email, id |-> NULL]
            /\ UNCHANGED <<pc, local>>
       ELSE /\ pc' = [pc EXCEPT ![p] = "register_save"]
            /\ local' = [local EXCEPT ![p] =
                    [op |-> "register", email |-> email]]
            /\ UNCHANGED result
    /\ UNCHANGED <<users, categories, posts, comments, ratings, nextId, now>>

\* register, form.save(): INSERT INTO auth_user; the email column carries
\* no constraint
RegisterSave(p) ==
    /\ pc[p] = "register_save"
    /\ nextId.user <= MaxUsers
    /\ users' = [u \in DOMAIN users \cup {nextId.user} |->
            IF u = nextId.user THEN [email |-> local[p].email] ELSE users[u]]
    /\ nextId' = [nextId EXCEPT !.user = @ + 1]
    /\ result' = [result EXCEPT ![p] =
            [op |-> "register", outcome |-> "ok", email |-> local[p].email,
             id |-> nextId.user]]
    /\ pc' = [pc EXCEPT ![p] = "idle"]
    /\ local' = [local EXCEPT ![p] = Idle]
    /\ UNCHANGED <<categories, posts, comments, ratings, now>>

\* update_account, form.is_valid(): the email field is required, then
\* clean_email against the other users
UpdateClean(p, user, email) ==
    /\ pc[p] = "idle"
    /\ user \in DOMAIN users
    /\ IF email = "" \/ UpdateEmailRejected(email, user)
       THEN /\ result' =
                    [op |-> "update_account", outcome |-> "ValidationError",
                     email |-> email, id |-> user]
            /\ UNCHANGED <<pc, local>>
       ELSE /\ pc' = [pc EXCEPT ![p] = "update_save"]
            /\ local' = [local EXCEPT ![p] =
                    [op |-> "update_account", id |-> user, email |-> email]]
            /\ UNCHANGED result
    /\ UNCHANGED <<users, categories, posts, comments, ratings, nextId, now>>

\* update_account, form.save(): UPDATE auth_user, INSERT if the row is gone
UpdateSave(p) ==
    /\ pc[p] = "update_save"
    /\ users' = [u \in DOMAIN users \cup {local[p].id} |->
            IF u = local[p].id THEN [email |-> local[p].email] ELSE users[u]]
    /\ result' = [result EXCEPT ![p] =
            [op |-> "update_account", outcome |-> "ok",
             email |-> local[p].email, id |-> local[p].id]]
    /\ pc' = [pc EXCEPT ![p] = "idle"]
    /\ local' = [local EXCEPT ![p] = Idle]
    /\ UNCHANGED <<categories, posts, comments, ratings, nextId, now>>

-----------------------------------------------------------------------------
(* Stores the program starts from, and the specifications                  *)

NoRows == [k \in {} |-> NULL]

\* the superuser made at installation
Admin == [email |-> "a@x.com"]

\* a second registered user
Member == [email |-> "b@x.com"]

\* a root Category as the admin site stores it
Root(title) ==
    [title |-> title, slug |-> <<Slugify(title), 0>>, parent |-> NULL]

\* a Post as Post.save stored it at time 0
Stored(title, author) ==
    PostRow([NewPost(title, 1, "published", author, FALSE)
                EXCEPT !.slug = <<Slugify(title), 0>>], 0)

\* every request idle, the clock at 0, the counters past the stored rows
Start(us, cs, ps) ==
    /\ users = us
    /\ categories = cs
    /\ posts = ps
    /\ comments = NoRows
    /\ ratings = NoRows
    /\ nextId = [user |-> Cardinality(DOMAIN us) + 1,
                 category |-> Cardinality(DOMAIN cs) + 1,
                 post |-> Cardinality(DOMAIN ps) + 1,
                 comment |-> 1, rating |-> 1]
    /\ now = 0
    /\ pc = [p \in Procs |-> "idle"]
    /\ local = [p \in Procs |-> Idle]
    /\ result = NoResult

\* Rating ledger: two posts, votes from two addresses, post deletion
InitVote ==
    Start(1 :> Admin, 1 :> Root("Tech"),
          (1 :> Stored("Tech", 1)) @@ (2 :> Stored("News", 1)))

NextVote ==
    \E p \in Procs :
        \/ \E post \in DOMAIN posts, ip \in Addresses,
              value \in VALUE_CHOICES \cup {2} :
                VoteCheck(p, post, ip, value, NULL)
        \/ VoteInsert(p)
        \/ \E post \in DOMAIN posts : DeletePost(p, post)

SpecVote == InitVote /\ [][NextVote]_vars

\* Post repository: concurrent creates and edits of same-titled posts
InitSlug ==
    Start(1 :> Admin, 1 :> Root("Tech"), NoRows)

NextSlug ==
    \E p \in Procs :
        \/ \E title \in Titles :
                PostSaveSlug(p, NewPost(title, 1, "published", 1, FALSE))
        \/ \E q \in DOMAIN posts, title \in Titles :
                PostSaveSlug(p, EditedPost(q, title, "published", 1, FALSE))
        \/ PostSaveWrite(p)

SpecSlug == InitSlug /\ [][NextSlug]_vars

\* Published listing: one request at a time, posts of either status, pinned
\* or not, created and edited as the clock advances
InitList ==
    Start(1 :> Admin, 1 :> Root("Tech"), NoRows)

NextList ==
    \/ \E status \in STATUS_OPTIONS, fixed \in Booleans :
            PostSaveSlug("r1", NewPost("Tech", 1, status, 1, fixed))
    \/ \E q \in DOMAIN posts, status \in STATUS_OPTIONS, fixed \in Booleans :
            PostSaveSlug("r1", EditedPost(q, "Tech", status, NULL, fixed))
    \/ PostSaveWrite("r1")
    \/ Tick

SpecList == InitList /\ [][NextList]_vars

\* Category tree: one request creates and deletes categories while another
\* files posts in them and deletes posts
InitCategory ==
    Start(1 :> Admin, 1 :> Root("Tech"), NoRows)

NextCategory ==
    \/ \E parent \in {NULL} \cup DOMAIN categories :
            CreateCategory("r2", "Tech", <<Slugify("Tech"), 0>>, parent)
    \/ \E cat \in DOMAIN categories : DeleteCategory("r2", cat)
    \/ \E cat \in DOMAIN categories :
            PostSaveSlug("r1", NewPost("Tech", cat, "published", 1, FALSE))
    \/ PostSaveWrite("r1")
    \/ \E post \in DOMAIN posts : DeletePost("r1", post)

SpecCategory == InitCategory /\ [][NextCategory]_vars

\* Accounts: two requests register and update accounts side by side
InitAccount ==
    Start(1 :> Admin, NoRows, NoRows)

NextAccount ==
    \E p \in Procs :
        \/ \E email \in Emails \cup {""} : RegisterClean(p, email)
        \/ RegisterSave(p)
        \/ \E u \in DOMAIN users, email \in Emails \cup {""} :
                UpdateClean(p, u, email)
        \/ UpdateSave(p)

SpecAccount == InitAccount /\ [][NextAccount]_vars

\* Comments and votes on two posts, and the deletion of a post
InitComment ==
    Start((1 :> Admin) @@ (2 :> Member), 1 :> Root("Tech"),
          (1 :> Stored("Tech", 1)) @@ (2 :> Stored("News", 1)))

NextComment ==
    \/ \E post \in DOMAIN posts, parent \in {NULL} \cup DOMAIN comments :
            CreateComment("r1", post, 2, parent)
    \/ \E c \in DOMAIN comments, parent \in {NULL} \cup DOMAIN comments :
            MoveComment("r1", c, parent)
    \/ \E post \in DOMAIN posts : VoteCheck("r1", post, "1.2.3.4", 1, 2)
    \/ VoteInsert("r1")
    \/ \E post \in DOMAIN posts : DeletePost("r2", post)

SpecComment == InitComment /\ [][NextComment]_vars

\* Users deleted while they edit the stored posts and comment on them
InitUser ==
    Start((1 :> Admin) @@ (2 :> Member), 1 :> Root("Tech"),
          (1 :> Stored("Tech", 1)) @@ (2 :> Stored("News", 2)))

NextUser ==
    \/ \E q \in DOMAIN posts, updater \in DOMAIN users :
            PostSaveSlug("r1", EditedPost(q, posts[q].title, "published",
                                          updater, FALSE))
    \/ PostSaveWrite("r1")
    \/ \E post \in DOMAIN posts, author \in DOMAIN users,
          parent \in {NULL} \cup DOMAIN comments :
            CreateComment("r2", post, author, parent)
    \/ \E u \in DOMAIN users : DeleteUser("r2", u)

SpecUser == InitUser /\ [][NextUser]_vars

\* C1: each (post, address) pair has at most one stored Rating, and a
\* cast_vote on a pair that already has one, whether it finds the Rating in
\* its lookup or loses the race at the insert, fails with ConflictError
\* and leaves the stored Ratings as they were; the insert that finds the
\* pair free succeeds and stores exactly one Rating for it.
C1_OneRatingPerPair ==
    /\ [](\A r1, r2 \in DOMAIN ratings :
            (/\ ratings[r1].post = ratings[r2].post
             /\ ratings[r1].ip_address = ratings[r2].ip_address) => r1 = r2)
    /\ [][\A p \in Procs :
            /\ \A post \in DOMAIN posts, ip \in Addresses, value \in VALUE_CHOICES :
                 (VoteCheck(p, post, ip, value, NULL) /\ RatingsOf(post, ip) # {})
                    => (result'.outcome = "ConflictError" /\ ratings' = ratings)
            /\ (VoteInsert(p) /\ local[p].post \in DOMAIN posts)
                    => IF RatingsOf(local[p].post, local[p].ip) # {}
                       THEN result'.outcome = "ConflictError" /\ ratings' = ratings
                       ELSE /\ result'.outcome = "ok"
                            /\ DOMAIN ratings' = DOMAIN ratings \cup {nextId.rating}
                            /\ \A r \in DOMAIN ratings : ratings'[r] = ratings[r]
                            /\ ratings'[nextId.rating].post = local[p].post
                            /\ ratings'[nextId.rating].ip_address = local[p].ip]_vars

\* C1 witness: two concurrent votes on one pair passed the lookup, one was
\* stored and the other was refused by the constraint
C1_Witness ==
    /\ result.op = "cast_vote"
    /\ result.outcome = "ConflictError"
    /\ result.by = "constraint"
    /\ Cardinality(RatingsOf(result.post, result.ip)) = 1

\* C7: for every Post, get_sum_rating is the arithmetic sum of the values of
\* the Ratings stored for that Post (its likes minus its dislikes), 0 when
\* it has none; Ratings of other Posts do not count.
C7_ScoreIsSum ==
    \A q \in DOMAIN posts :
        LET mine == {r \in DOMAIN ratings : ratings[r].post = q}
            likes == {r \in mine : ratings[r].value = 1}
            dislikes == {r \in mine : ratings[r].value = -1}
        IN  /\ mine = likes \cup dislikes
            /\ get_sum_rating(q) = Cardinality(likes) - Cardinality(dislikes)
            /\ mine = {} => get_sum_rating(q) = 0

\* C7 witness: a Post with two Ratings and a non-zero score while another
\* Post has Ratings of its own
C7_Witness ==
    \E q1, q2 \in DOMAIN posts :
        /\ q1 # q2
        /\ Cardinality(PostRatings(q1)) = 2
        /\ PostRatings(q2) # {}
        /\ get_sum_rating(q1) # 0

\* C2: any two distinct Posts have distinct slugs, after any sequence of
\* creates and updates, concurrent creation of same-titled posts included.
C2_PostSlugsDistinct ==
    \A q1, q2 \in DOMAIN posts : q1 # q2 => posts[q1].slug # posts[q2].slug

\* C8: every result of the PostManager queryset lists exactly the published
\* Posts, each once and no draft, every pinned Post before every non-pinned
\* one whatever their creation times, and among Posts of the same pinned
\* value never an older one before a newer one.
C8_PublishedPinnedFirst ==
    /\ get_queryset # {}
    /\ \A seq \in get_queryset :
        /\ \A q \in DOMAIN posts :
              Cardinality({i \in 1..Len(seq) : seq[i] = q})
                = IF posts[q].status = "published" THEN 1 ELSE 0
        /\ \A i \in 1..Len(seq) :
              seq[i] \in DOMAIN posts /\ posts[seq[i]].status # "draft"
        /\ \A i, j \in 1..Len(seq) :
              i < j => /\ ~(posts[seq[j]].fixed /\ ~posts[seq[i]].fixed)
                       /\ posts[seq[i]].fixed = posts[seq[j]].fixed
                            => posts[seq[i]].create >= posts[seq[j]].create

\* C8 witness: a draft is stored, and the listing puts a pinned Post before
\* a non-pinned Post that was created later
C8_Witness ==
    /\ \E q \in DOMAIN posts : posts[q].status = "draft"
    /\ \E seq \in get_queryset : \E i, j \in 1..Len(seq) :
          /\ i < j
          /\ posts[seq[i]].fixed /\ ~posts[seq[j]].fixed
          /\ posts[seq[i]].create < posts[seq[j]].create

\* cat lies in the subtree of root, found by walking up the parents
RECURSIVE IsWithin(_, _)
IsWithin(cat, root) ==
    IF cat \notin DOMAIN categories THEN FALSE
    ELSE IF cat = root THEN TRUE
    ELSE IsWithin(categories[cat].parent, root)

\* C3: deleting a Category fails with the referential error whenever a Post
\* references it or one of its descendants, and the failed delete removes
\* or changes no Category and no Post.
C3_CategoryDeleteProtected ==
    [][\A p \in Procs, c \in DOMAIN categories :
        DeleteCategory(p, c) =>
            /\ (\E q \in DOMAIN posts : IsWithin(posts[q].category, c))
                    => result'.outcome = "ProtectedError"
            /\ result'.outcome = "ProtectedError"
                    => categories' = categories /\ posts' = posts]_vars

\* C3 witness: a delete was refused for a Category that no Post references
\* itself, because a Post references one of its descendants
C3_Witness ==
    /\ result.op = "Category.delete"
    /\ result.outcome = "ProtectedError"
    /\ result.id \in DOMAIN categories
    /\ \A q \in DOMAIN posts : posts[q].category # result.id
    /\ \E q \in DOMAIN posts : IsWithin(posts[q].category, result.id)

\* C6: any two Categories have distinct slugs after any sequence of
\* Category creations; a second Category titled "Tech" gets a slug that
\* differs from the first one's "tech".
C6_CategorySlugsDistinct ==
    \A c1, c2 \in DOMAIN categories :
        c1 # c2 => categories[c1].slug # categories[c2].slug

\* C4: deleting a Post removes every Comment and every Rating of that Post
\* and leaves the Categories, the other Posts, and the Comments and Ratings
\* of the other Posts as they were.
C4_PostDeleteFrame ==
    [][\A p \in Procs, post \in DOMAIN posts :
        DeletePost(p, post) =>
            /\ \A c \in DOMAIN comments' : comments'[c].post # post
            /\ \A r \in DOMAIN ratings' : ratings'[r].post # post
            /\ categories' = categories
            /\ DOMAIN posts' = DOMAIN posts \ {post}
            /\ \A q \in DOMAIN posts' : posts'[q] = posts[q]
            /\ \A c \in DOMAIN comments : comments[c].post # post
                    => c \in DOMAIN comments' /\ comments'[c] = comments[c]
            /\ \A r \in DOMAIN ratings : ratings[r].post # post
                    => r \in DOMAIN ratings' /\ ratings'[r] = ratings[r]]_vars

\* C5: no two users share the same email, after any sequence and any
\* interleaving of register and update_account.
C5_EmailsDistinct ==
    \A u1, u2 \in DOMAIN users :
        (u1 # u2 /\ users[u1].email # "") => users[u1].email # users[u2].email

\* C9: deleting any user keeps every Post the user authored with its author
\* reset to the default user (id 1), nulls the updater of every Post the
\* user last updated, and deletes every Comment the user authored;
\* afterwards every Post's author is an existing user.
C9_UserDeleteKeepsPosts ==
    [][\A p \in Procs, u \in DOMAIN users :
        DeleteUser(p, u) =>
            /\ DOMAIN posts' = DOMAIN posts
            /\ \A q \in DOMAIN posts :
                /\ posts[q].author = u => posts'[q].author = DEFAULT_AUTHOR
                /\ posts[q].updater = u => posts'[q].updater = NULL
            /\ \A c \in DOMAIN comments' : comments'[c].author # u
            /\ \A q \in DOMAIN posts' : posts'[q].author \in DOMAIN users']_vars

\* C10: every Comment with a parent references the same Post as its parent,
\* after any sequence of comment insertions and reparentings.
C10_ReplyOnSamePost ==
    \A c \in DOMAIN comments :
        comments[c].parent # NULL
            => /\ comments[c].parent \in DOMAIN comments
               /\ comments[comments[c].parent].post = comments[c].post

====
